---- MODULE Spec2Model ----
(***************************************************************************)
(* Model of the websim-2api shim: one inbound HTTP request handled by one  *)
(* of the three deployment variants of the script                          *)
(*   "main"      src/main.ts              (chat + image, auth in router)   *)
(*   "part_000"  src/unnamed/part_000     (v2: CORS headers + streaming)   *)
(*   "part_001"  src/unnamed/part_001     (first chat-only script)         *)
(* Requests share no mutable state, so one request per behaviour is the    *)
(* whole program.                                                          *)
(***************************************************************************)
EXTENDS Integers, Sequences, FiniteSets, TLC

\* ---- bounds ----------------------------------------------------------
MaxLen == 3
MaxTicks == 1

\* ---- program constants ------------------------------------------------
MsPerSecond == 1000

Variants == {"main", "part_000", "part_001"}

\* JavaScript's undefined / null, kept apart from every real string
undefined == "$undefined"
null == "$null"

\* JavaScript truthiness of a string-or-missing value
Truthy(v) == v \notin {undefined, null, ""}

\* template-literal interpolation `${v}`
Str(v) == IF v = undefined THEN "undefined" ELSE IF v = null THEN "null" ELSE v

WEBSIM_CHAT_PROJECT_ID == "8n26qj27l_9v7_8fxk9i"
WEBSIM_IMAGE_PROJECT_ID == "7s1bwhja5y2paq235t93"
WEBSIM_CHAT_API_URL == "https://websim.com/api/v1/inference/run_chat_completion"
WEBSIM_IMAGE_API_URL == "https://websim.com/api/v1/inference/run_image_generation"

\* Object.keys(MODEL_MAPPING), in insertion order
ModelKeys(v) == IF v = "main" THEN <<"websim-chat", "websim-image">> ELSE <<"websim-chat">>

\* properties every object literal inherits from Object.prototype
ObjectPrototypeKeys == {"constructor", "toString"}

NotFoundEntry == [found |-> "none", type |-> undefined, projectId |-> undefined, apiUrl |-> undefined]

\* MODEL_MAPPING[key]: own property, inherited property, or undefined
MODEL_MAPPING(v, key) ==
  IF key = "websim-chat"
    THEN [found |-> "own", type |-> IF v = "main" THEN "chat" ELSE undefined,
          projectId |-> WEBSIM_CHAT_PROJECT_ID, apiUrl |-> WEBSIM_CHAT_API_URL]
  ELSE IF key = "websim-image" /\ v = "main"
    THEN [found |-> "own", type |-> "image",
          projectId |-> WEBSIM_IMAGE_PROJECT_ID, apiUrl |-> WEBSIM_IMAGE_API_URL]
  ELSE IF key \in ObjectPrototypeKeys
    THEN [found |-> "inherited", type |-> undefined, projectId |-> undefined, apiUrl |-> undefined]
  ELSE NotFoundEntry

\* ---- String.prototype.trim on a sequence of characters ----------------
Chars == {" ", "a"}

IsSpace(c) == c \in {" ", "\n", "\t"}

RECURSIVE TrimStart(_)
TrimStart(s) == IF s # <<>> /\ IsSpace(Head(s)) THEN TrimStart(Tail(s)) ELSE s

RECURSIVE TrimEnd(_)
TrimEnd(s) == IF s # <<>> /\ IsSpace(s[Len(s)]) THEN TrimEnd(SubSeq(s, 1, Len(s) - 1)) ELSE s

Trim(s) == TrimEnd(TrimStart(s))

Contents == UNION {[1..n -> Chars] : n \in 0..MaxLen}

\* ---- inputs -----------------------------------------------------------
Methods == {"OPTIONS", "GET", "POST"}
Paths == {"/v1/models", "/v1/chat/completions", "/v1/images/generations", "/other"}
Keys == {undefined, "", "secret"}
AuthHeaders == {null, "Bearer secret", "Bearer wrong", "secret"}
ModelValues == {undefined, "websim-chat", "websim-image", "unknown-model", "constructor"}
\* JavaScript boolean true, kept apart from the string "true"
true == "$true"

StreamValues == {undefined, "true", true}
SizeValues == {undefined, "1792x1024", "1024x1792"}
UUIDs == {"uuid-1", "uuid-2"}
UpstreamStatuses == {200, 201, 304, 404, 500, 503}

Body(kind, model, stream, size) == [kind |-> kind, model |-> model, stream |-> stream, size |-> size]

Bodies ==
  {Body("invalid", undefined, undefined, undefined), Body("null", undefined, undefined, undefined)}
  \cup {Body("object", m, s, undefined) : m \in ModelValues, s \in StreamValues}
  \cup {Body("object", m, undefined, z) : m \in ModelValues, z \in SizeValues}

\* ---- responses --------------------------------------------------------
Response(status, headers, body) == [status |-> status, headers |-> headers, body |-> body]

NoResponse == Response(0, {}, [kind |-> "none"])

corsHeaders == {<<"Access-Control-Allow-Origin", "*">>}

jsonContentType == {<<"Content-Type", "application/json">>}

Text(t) == [kind |-> "text", text |-> t]

JsonError(msg) == [kind |-> "json", error |-> msg]

VARIABLES variant, AUTHORIZATION_KEY, req, now, pc, resp, thrown, bodyRead,
          authChecked, upstreamCalls, websimPayload, apiResponse, content,
          chunkId, streamChunk, finalChunk, frames, closed

vars == <<variant, AUTHORIZATION_KEY, req, now, pc, resp, thrown, bodyRead,
          authChecked, upstreamCalls, websimPayload, apiResponse, content,
          chunkId, streamChunk, finalChunk, frames, closed>>

NoPayload == [project_id |-> undefined, aspect_ratio |-> undefined, url |-> undefined]
NoApiResponse == [status |-> 0, kind |-> "none", hasContent |-> FALSE, content |-> <<>>, url |-> undefined]
NoChunk == [id |-> "", object |-> "", created |-> 0, model |-> undefined,
            hasDelta |-> FALSE, delta |-> <<>>, finish_reason |-> null]

\* Math.floor(Date.now() / 1000)
Created(t) == t \div MsPerSecond

Init ==
  /\ variant \in Variants
  /\ AUTHORIZATION_KEY \in Keys
  /\ req \in [method : Methods, path : Paths, auth : AuthHeaders, body : Bodies]
  /\ now \in {2 * MsPerSecond - 1, 2 * MsPerSecond}
  /\ pc = "handler"
  /\ resp = NoResponse
  /\ thrown = FALSE
  /\ bodyRead = FALSE
  /\ authChecked = FALSE
  /\ upstreamCalls = 0
  /\ websimPayload = NoPayload
  /\ apiResponse = NoApiResponse
  /\ content = <<>>
  /\ chunkId = ""
  /\ streamChunk = NoChunk
  /\ finalChunk = NoChunk
  /\ frames = <<>>
  /\ closed = FALSE

\* the handler returns r
Return(r) ==
  /\ resp' = r
  /\ pc' = "done"
  /\ UNCHANGED thrown

\* an exception escapes the handler: no Response is produced
Throw ==
  /\ thrown' = TRUE
  /\ pc' = "done"
  /\ UNCHANGED resp

Goto(p) ==
  /\ pc' = p
  /\ UNCHANGED <<resp, thrown>>

\* the wall clock advances while the request is in flight
Tick ==
  /\ pc # "done"
  /\ now < 2 * MsPerSecond + MaxTicks
  /\ now' = now + 1
  /\ UNCHANGED <<variant, AUTHORIZATION_KEY, req, pc, resp, thrown, bodyRead,
                 authChecked, upstreamCalls, websimPayload, apiResponse, content,
                 chunkId, streamChunk, finalChunk, frames, closed>>

\* ---- handler: CORS preflight -------------------------------------------
PreflightNoHeaders == Response(204, {}, [kind |-> "none"])

PreflightResponse ==
  Response(204,
           {<<"Access-Control-Allow-Origin", "*">>,
            <<"Access-Control-Allow-Methods", "GET, POST, OPTIONS">>,
            <<"Access-Control-Allow-Headers", "Content-Type, Authorization">>},
           [kind |-> "none"])

Preflight ==
  /\ pc = "handler"
  /\ req.method = "OPTIONS"
  /\ Return(PreflightResponse)
  /\ UNCHANGED <<variant, AUTHORIZATION_KEY, req, now, bodyRead,
                 authChecked, upstreamCalls, websimPayload, apiResponse, content,
                 chunkId, streamChunk, finalChunk, frames, closed>>

\* ---- bearer-token comparison -------------------------------------------
AuthFailsMissingOnly(key, header) == Truthy(key) /\ ~Truthy(header)

\* if (KEY) { if (!authHeader || authHeader !== `Bearer ${KEY}`) ... }
AuthFails(key, header) == Truthy(key) /\ (~Truthy(header) \/ header # "Bearer " \o key)

UnauthorizedResponse(v) ==
  IF v = "main" THEN Response(401, jsonContentType, JsonError("Unauthorized"))
  ELSE IF v = "part_000" THEN Response(401, corsHeaders, Text("Unauthorized"))
  ELSE Response(401, {}, Text("Unauthorized"))

\* main.ts authenticates in the router, before the path is looked at
HandlerAuth ==
  /\ pc = "handler"
  /\ variant = "main"
  /\ req.method # "OPTIONS"
  /\ authChecked' = TRUE
  /\ IF AuthFails(AUTHORIZATION_KEY, req.auth)
       THEN Return(UnauthorizedResponse(variant))
       ELSE Goto("route")
  /\ UNCHANGED <<variant, AUTHORIZATION_KEY, req, now, bodyRead,
                 upstreamCalls, websimPayload, apiResponse, content,
                 chunkId, streamChunk, finalChunk, frames, closed>>

\* ---- handler: routing ---------------------------------------------------
\* control is at the `pathname === ...` chain
AtRoute ==
  \/ pc = "route"
  \/ pc = "handler" /\ variant # "main" /\ req.method # "OPTIONS"

ModelEntry(id, t) == [id |-> id, object |-> "model", created |-> Created(t), owned_by |-> "user"]

ModelsDataDropLast(v, t) == [i \in 1..(Len(ModelKeys(v)) - 1) |-> ModelEntry(ModelKeys(v)[i], t)]

\* Object.keys(MODEL_MAPPING).map(...)
ModelsData(v, t) == [i \in 1..Len(ModelKeys(v)) |-> ModelEntry(ModelKeys(v)[i], t)]

handleModels(v, t) ==
  Response(200,
           IF v = "part_000" THEN corsHeaders \cup jsonContentType ELSE jsonContentType,
           [kind |-> "json", object |-> "list", data |-> ModelsData(v, t)])

RouteModels ==
  /\ AtRoute
  /\ req.path = "/v1/models"
  /\ Return(handleModels(variant, now))
  /\ UNCHANGED <<variant, AUTHORIZATION_KEY, req, now, bodyRead,
                 authChecked, upstreamCalls, websimPayload, apiResponse, content,
                 chunkId, streamChunk, finalChunk, frames, closed>>

RouteChat ==
  /\ AtRoute
  /\ req.path = "/v1/chat/completions"
  /\ Goto(IF variant = "main" THEN "parse" ELSE "chat_auth")
  /\ UNCHANGED <<variant, AUTHORIZATION_KEY, req, now, bodyRead,
                 authChecked, upstreamCalls, websimPayload, apiResponse, content,
                 chunkId, streamChunk, finalChunk, frames, closed>>

\* only main.ts has the image route
RouteImage ==
  /\ AtRoute
  /\ variant = "main"
  /\ req.path = "/v1/images/generations"
  /\ Goto("parse")
  /\ UNCHANGED <<variant, AUTHORIZATION_KEY, req, now, bodyRead,
                 authChecked, upstreamCalls, websimPayload, apiResponse, content,
                 chunkId, streamChunk, finalChunk, frames, closed>>

\* the paths the variant dispatches to a handler
Routes(v) ==
  IF v = "main" THEN {"/v1/models", "/v1/chat/completions", "/v1/images/generations"}
  ELSE {"/v1/models", "/v1/chat/completions"}

NotFoundResponse(v) ==
  Response(404, IF v = "part_000" THEN corsHeaders ELSE {}, Text("Not Found"))

RouteNotFound ==
  /\ AtRoute
  /\ req.path \notin Routes(variant)
  /\ Return(NotFoundResponse(variant))
  /\ UNCHANGED <<variant, AUTHORIZATION_KEY, req, now, bodyRead,
                 authChecked, upstreamCalls, websimPayload, apiResponse, content,
                 chunkId, streamChunk, finalChunk, frames, closed>>

\* the handler the request was dispatched to
Modality == IF req.path = "/v1/images/generations" THEN "image" ELSE "chat"

\* ---- chat handler: authentication (part_000, part_001) -------------------
ChatAuth ==
  /\ pc = "chat_auth"
  /\ authChecked' = TRUE
  /\ IF AuthFails(AUTHORIZATION_KEY, req.auth)
       THEN Return(UnauthorizedResponse(variant))
       ELSE Goto("parse")
  /\ UNCHANGED <<variant, AUTHORIZATION_KEY, req, now, bodyRead,
                 upstreamCalls, websimPayload, apiResponse, content,
                 chunkId, streamChunk, finalChunk, frames, closed>>

\* ---- failures -----------------------------------------------------------
\* the Response the catch block that encloses the failing statement builds
CatchResponse(v, msg) ==
  IF v = "main" THEN Response(500, {}, JsonError(msg))
  ELSE IF v = "part_000"
    THEN Response(500, corsHeaders \cup jsonContentType, JsonError("Internal Server Error"))
  ELSE Response(500, {}, Text("Internal Server Error"))

\* an exception is raised; part_001 only guards lines 101-155 with a try
Raise(v, inTry, msg) ==
  IF v = "part_001" /\ ~inTry THEN Throw ELSE Return(CatchResponse(v, msg))

\* ---- body parsing: await req.json() --------------------------------------
BadBodyResponse(v) ==
  IF v = "main" THEN CatchResponse(v, "Unexpected token in JSON")
  ELSE IF v = "part_000" THEN Response(400, corsHeaders, Text("Invalid JSON body"))
  ELSE Response(400, {}, Text("Invalid JSON body"))

ChatParse ==
  /\ pc = "parse"
  /\ Modality = "chat"
  /\ bodyRead' = TRUE
  /\ IF req.body.kind = "invalid" THEN Return(BadBodyResponse(variant)) ELSE Goto("lookup")
  /\ UNCHANGED <<variant, AUTHORIZATION_KEY, req, now,
                 authChecked, upstreamCalls, websimPayload, apiResponse, content,
                 chunkId, streamChunk, finalChunk, frames, closed>>

ImageParse ==
  /\ pc = "parse"
  /\ Modality = "image"
  /\ bodyRead' = TRUE
  /\ IF req.body.kind = "invalid" THEN Return(BadBodyResponse(variant)) ELSE Goto("lookup")
  /\ UNCHANGED <<variant, AUTHORIZATION_KEY, req, now,
                 authChecked, upstreamCalls, websimPayload, apiResponse, content,
                 chunkId, streamChunk, finalChunk, frames, closed>>

\* ---- model lookup --------------------------------------------------------
\* main.ts: !modelConfig || modelConfig.type !== modality ; others: !projectId
ModelMissing(v, modality, cfg) ==
  IF v = "main" THEN cfg.found = "none" \/ cfg.type # modality
  ELSE cfg.found = "none"

ModelNotFoundResponse(v, modality, model) ==
  IF v = "main"
    THEN Response(404, {}, JsonError((IF modality = "chat" THEN "Chat" ELSE "Image")
                                      \o " model not found: " \o Str(model)))
  ELSE IF v = "part_000"
    THEN Response(404, corsHeaders \cup jsonContentType, JsonError("Model not found: " \o Str(model)))
  ELSE Response(404, {}, JsonError("Model not found: " \o Str(model)))

ChatLookup ==
  /\ pc = "lookup"
  /\ Modality = "chat"
  /\ IF req.body.kind = "null"
       THEN /\ Raise(variant, FALSE, "Cannot read properties of null (reading 'model')")
            /\ UNCHANGED websimPayload
       ELSE LET cfg == MODEL_MAPPING(variant, Str(req.body.model)) IN
            IF ModelMissing(variant, "chat", cfg)
              THEN /\ Return(ModelNotFoundResponse(variant, "chat", req.body.model))
                   /\ UNCHANGED websimPayload
              ELSE /\ websimPayload' = [project_id |-> cfg.projectId, aspect_ratio |-> undefined,
                                        url |-> IF variant = "main" THEN cfg.apiUrl ELSE WEBSIM_CHAT_API_URL]
                   /\ Goto("fetch")
  /\ UNCHANGED <<variant, AUTHORIZATION_KEY, req, now, bodyRead,
                 authChecked, upstreamCalls, apiResponse, content,
                 chunkId, streamChunk, finalChunk, frames, closed>>

\* switch (openaiRequest.size)
AspectRatio(size) ==
  IF size = "1792x1024" THEN "16:9"
  ELSE IF size = "1024x1792" THEN "9:16"
  ELSE "1:1"

ImageLookup ==
  /\ pc = "lookup"
  /\ Modality = "image"
  /\ IF req.body.kind = "null"
       THEN /\ Raise(variant, FALSE, "Cannot read properties of null (reading 'model')")
            /\ UNCHANGED websimPayload
       ELSE LET cfg == MODEL_MAPPING(variant, Str(req.body.model)) IN
            IF ModelMissing(variant, "image", cfg)
              THEN /\ Return(ModelNotFoundResponse(variant, "image", req.body.model))
                   /\ UNCHANGED websimPayload
              ELSE /\ websimPayload' = [project_id |-> cfg.projectId,
                                        aspect_ratio |-> AspectRatio(req.body.size),
                                        url |-> cfg.apiUrl]
                   /\ Goto("fetch")
  /\ UNCHANGED <<variant, AUTHORIZATION_KEY, req, now, bodyRead,
                 authChecked, upstreamCalls, apiResponse, content,
                 chunkId, streamChunk, finalChunk, frames, closed>>

\* ---- upstream call: await fetch(...) --------------------------------------
Ok(st) == st >= 200 /\ st <= 299

ApiResponse(st, kind, has, c, url) ==
  [status |-> st, kind |-> kind, hasContent |-> has, content |-> c, url |-> url]

\* what the provider can answer to a chat call
ChatReplies ==
  {ApiResponse(st, "json", TRUE, c, undefined) : st \in {x \in UpstreamStatuses : Ok(x)}, c \in Contents}
  \cup {ApiResponse(st, k, FALSE, <<>>, undefined) : st \in {x \in UpstreamStatuses : Ok(x)}, k \in {"json", "invalid"}}
  \cup {ApiResponse(st, "text", FALSE, <<>>, undefined) : st \in {x \in UpstreamStatuses : ~Ok(x)}}

\* what the provider can answer to an image call
ImageReplies ==
  {ApiResponse(st, "json", FALSE, <<>>, u) : st \in {x \in UpstreamStatuses : Ok(x)}, u \in {undefined, "https://img/1.png"}}
  \cup {ApiResponse(st, "invalid", FALSE, <<>>, undefined) : st \in {x \in UpstreamStatuses : Ok(x)}}
  \cup {ApiResponse(st, "text", FALSE, <<>>, undefined) : st \in {x \in UpstreamStatuses : ~Ok(x)}}

ChatFetch ==
  /\ pc = "fetch"
  /\ Modality = "chat"
  /\ upstreamCalls' = upstreamCalls + 1
  /\ \/ /\ Raise(variant, TRUE, "error sending request")
        /\ UNCHANGED apiResponse
     \/ /\ apiResponse' \in ChatReplies
        /\ Goto("reply")
  /\ UNCHANGED <<variant, AUTHORIZATION_KEY, req, now, bodyRead,
                 authChecked, websimPayload, content,
                 chunkId, streamChunk, finalChunk, frames, closed>>

ImageFetch ==
  /\ pc = "fetch"
  /\ Modality = "image"
  /\ upstreamCalls' = upstreamCalls + 1
  /\ \/ /\ Raise(variant, TRUE, "error sending request")
        /\ UNCHANGED apiResponse
     \/ /\ apiResponse' \in ImageReplies
        /\ Goto("reply")
  /\ UNCHANGED <<variant, AUTHORIZATION_KEY, req, now, bodyRead,
                 authChecked, websimPayload, content,
                 chunkId, streamChunk, finalChunk, frames, closed>>

\* ---- upstream failure: if (!apiResponse.ok) --------------------------------
UpstreamErrorAlwaysOk(v, st) == Response(200, {}, Text("Upstream API error"))

\* new Response(body, {status}) with a non-null body: the constructor raises a
\* RangeError outside 200..599 and a TypeError for a null-body status
CanCarryBody(st) == st >= 200 /\ st <= 599 /\ st \notin {204, 205, 304}

\* main.ts throws into its catch; the others build a Response with the upstream status
UpstreamErrorResponse(v, st) ==
  IF v = "main" THEN CatchResponse(v, "Upstream API error: " \o ToString(st))
  ELSE IF ~CanCarryBody(st) THEN CatchResponse(v, "Response with null body status cannot have body")
  ELSE IF v = "part_000" THEN Response(st, corsHeaders, Text("Upstream API error"))
  ELSE Response(st, {}, Text("Upstream API error"))

\* part_000 and part_001 first await apiResponse.text(), which can reject
ChatUpstreamError ==
  /\ pc = "reply"
  /\ Modality = "chat"
  /\ ~Ok(apiResponse.status)
  /\ \/ Return(UpstreamErrorResponse(variant, apiResponse.status))
     \/ /\ variant # "main"
        /\ Raise(variant, TRUE, "error reading a body from connection")
  /\ UNCHANGED <<variant, AUTHORIZATION_KEY, req, now, bodyRead,
                 authChecked, upstreamCalls, websimPayload, apiResponse, content,
                 chunkId, streamChunk, finalChunk, frames, closed>>

ImageUpstreamError ==
  /\ pc = "reply"
  /\ Modality = "image"
  /\ ~Ok(apiResponse.status)
  /\ Return(UpstreamErrorResponse(variant, apiResponse.status))
  /\ UNCHANGED <<variant, AUTHORIZATION_KEY, req, now, bodyRead,
                 authChecked, upstreamCalls, websimPayload, apiResponse, content,
                 chunkId, streamChunk, finalChunk, frames, closed>>

\* ---- chat success path --------------------------------------------------
\* part_000: content?.trim() ?? "" ; main.ts, part_001: content.trim()
ReplyContent(v, r) == IF r.hasContent THEN Trim(r.content) ELSE <<>>

\* websimResponse.content.trim() on a reply without content raises a TypeError
ContentRaises(v, r) == v # "part_000" /\ ~r.hasContent

successHeaders == jsonContentType \cup corsHeaders

ChatCompletion(id, t, model, c) ==
  [kind |-> "json", id |-> "chatcmpl-" \o id, object |-> "chat.completion",
   created |-> Created(t), model |-> model, content |-> c, finish_reason |-> "stop"]

\* part_000: const isStreaming = openaiRequest.stream === true ; the others ignore stream
IsStreaming(v, body) == v = "part_000" /\ body.stream = true

ChatReply ==
  /\ pc = "reply"
  /\ Modality = "chat"
  /\ Ok(apiResponse.status)
  /\ IF apiResponse.kind = "invalid"
       THEN /\ Raise(variant, TRUE, "Unexpected token in JSON")
            /\ UNCHANGED content
     ELSE IF ContentRaises(variant, apiResponse)
       THEN /\ Raise(variant, TRUE, "Cannot read properties of undefined (reading 'trim')")
            /\ UNCHANGED content
     ELSE /\ content' = ReplyContent(variant, apiResponse)
          /\ IF IsStreaming(variant, req.body)
               THEN Goto("stream_start")
               ELSE \E u \in UUIDs :
                      Return(Response(200, successHeaders,
                                      ChatCompletion(u, now, req.body.model, content')))
  /\ UNCHANGED <<variant, AUTHORIZATION_KEY, req, now, bodyRead,
                 authChecked, upstreamCalls, websimPayload, apiResponse,
                 chunkId, streamChunk, finalChunk, frames, closed>>

\* ---- part_000: emulated SSE stream, ReadableStream start(controller) -------
StreamStart ==
  /\ pc = "stream_start"
  /\ \E u \in UUIDs : chunkId' = "chatcmpl-" \o u
  /\ Goto("stream_chunk")
  /\ UNCHANGED <<variant, AUTHORIZATION_KEY, req, now, bodyRead,
                 authChecked, upstreamCalls, websimPayload, apiResponse, content,
                 streamChunk, finalChunk, frames, closed>>

StreamChunk(id, t, model, c) ==
  [id |-> id, object |-> "chat.completion.chunk", created |-> Created(t), model |-> model,
   hasDelta |-> TRUE, delta |-> c, finish_reason |-> null]

BuildStreamChunk ==
  /\ pc = "stream_chunk"
  /\ streamChunk' = StreamChunk(chunkId, now, req.body.model, content)
  /\ Goto("final_chunk")
  /\ UNCHANGED <<variant, AUTHORIZATION_KEY, req, now, bodyRead,
                 authChecked, upstreamCalls, websimPayload, apiResponse, content,
                 chunkId, finalChunk, frames, closed>>

FinalChunkNoStop(id, t, model) ==
  [id |-> id, object |-> "chat.completion.chunk", created |-> Created(t), model |-> model,
   hasDelta |-> FALSE, delta |-> <<>>, finish_reason |-> null]

FinalChunk(id, t, model) ==
  [id |-> id, object |-> "chat.completion.chunk", created |-> Created(t), model |-> model,
   hasDelta |-> FALSE, delta |-> <<>>, finish_reason |-> "stop"]

BuildFinalChunk ==
  /\ pc = "final_chunk"
  /\ finalChunk' = FinalChunk(chunkId, now, req.body.model)
  /\ Goto("enqueue_chunk")
  /\ UNCHANGED <<variant, AUTHORIZATION_KEY, req, now, bodyRead,
                 authChecked, upstreamCalls, websimPayload, apiResponse, content,
                 chunkId, streamChunk, frames, closed>>

\* `data: ${JSON.stringify(chunk)}\n\n`
DataFrame(chunk) == [literal |-> "", chunk |-> chunk]

\* `data: [DONE]\n\n`
DoneFrame == [literal |-> "[DONE]", chunk |-> NoChunk]

\* controller.enqueue(frame)
Enqueue(frame) ==
  /\ ~closed
  /\ frames' = Append(frames, frame)

EnqueueStreamChunk ==
  /\ pc = "enqueue_chunk"
  /\ Enqueue(DataFrame(streamChunk))
  /\ Goto("enqueue_final")
  /\ UNCHANGED <<variant, AUTHORIZATION_KEY, req, now, bodyRead,
                 authChecked, upstreamCalls, websimPayload, apiResponse, content,
                 chunkId, streamChunk, finalChunk, closed>>

EnqueueFinalChunk ==
  /\ pc = "enqueue_final"
  /\ Enqueue(DataFrame(finalChunk))
  /\ Goto("enqueue_done")
  /\ UNCHANGED <<variant, AUTHORIZATION_KEY, req, now, bodyRead,
                 authChecked, upstreamCalls, websimPayload, apiResponse, content,
                 chunkId, streamChunk, finalChunk, closed>>

EnqueueDone ==
  /\ pc = "enqueue_done"
  /\ Enqueue(DoneFrame)
  /\ Goto("close")
  /\ UNCHANGED <<variant, AUTHORIZATION_KEY, req, now, bodyRead,
                 authChecked, upstreamCalls, websimPayload, apiResponse, content,
                 chunkId, streamChunk, finalChunk, closed>>

\* controller.close()
CloseStream ==
  /\ pc = "close"
  /\ closed' = TRUE
  /\ Goto("return_stream")
  /\ UNCHANGED <<variant, AUTHORIZATION_KEY, req, now, bodyRead,
                 authChecked, upstreamCalls, websimPayload, apiResponse, content,
                 chunkId, streamChunk, finalChunk, frames>>

streamHeaders ==
  corsHeaders \cup {<<"Content-Type", "text/event-stream">>,
                    <<"Cache-Control", "no-cache">>,
                    <<"Connection", "keep-alive">>}

ReturnStream ==
  /\ pc = "return_stream"
  /\ Return(Response(200, streamHeaders, [kind |-> "stream"]))
  /\ UNCHANGED <<variant, AUTHORIZATION_KEY, req, now, bodyRead,
                 authChecked, upstreamCalls, websimPayload, apiResponse, content,
                 chunkId, streamChunk, finalChunk, frames, closed>>

\* ---- image success path (main.ts) -------------------------------------------
ImageResult(t, url) == [kind |-> "json", created |-> Created(t), url |-> url]

ImageReply ==
  /\ pc = "reply"
  /\ Modality = "image"
  /\ Ok(apiResponse.status)
  /\ IF apiResponse.kind = "invalid"
       THEN Raise(variant, TRUE, "Unexpected token in JSON")
       ELSE Return(Response(200, successHeaders, ImageResult(now, apiResponse.url)))
  /\ UNCHANGED <<variant, AUTHORIZATION_KEY, req, now, bodyRead,
                 authChecked, upstreamCalls, websimPayload, apiResponse, content,
                 chunkId, streamChunk, finalChunk, frames, closed>>

Next ==
  \/ Preflight \/ HandlerAuth \/ RouteModels \/ RouteChat \/ RouteImage
  \/ RouteNotFound \/ ChatAuth \/ ChatParse \/ ImageParse \/ ChatLookup
  \/ ImageLookup \/ ChatFetch \/ ImageFetch \/ ChatUpstreamError
  \/ ImageUpstreamError \/ ChatReply \/ StreamStart \/ BuildStreamChunk
  \/ BuildFinalChunk \/ EnqueueStreamChunk \/ EnqueueFinalChunk \/ EnqueueDone
  \/ CloseStream \/ ReturnStream \/ ImageReply \/ Tick

Spec == Init /\ [][Next]_vars

\* ======================= properties ======================================
Done == pc = "done"

TokenConfigured == AUTHORIZATION_KEY \notin {undefined, ""}

\* the Authorization header is missing or is not exactly "Bearer " + token
HeaderMismatch == req.auth = null \/ req.auth # "Bearer " \o AUTHORIZATION_KEY

Authenticated == ~(TokenConfigured /\ HeaderMismatch)

ChatImagePaths == {"/v1/chat/completions", "/v1/images/generations"}

\* the request is dispatched to the chat or the image handler of this variant
ServedChatImage ==
  /\ req.method # "OPTIONS"
  /\ req.path \in ChatImagePaths
  /\ req.path \in Routes(variant)

AllowOrigin == <<"Access-Control-Allow-Origin", "*">>

\* ---- C1 ------------------------------------------------------------------
\* C1 (as stated): with a token configured, every request to the chat or image
\* path with a missing or mismatched Authorization header gets 401 and neither
\* the body is parsed nor the upstream called.
C1_Original ==
  (TokenConfigured /\ req.path \in ChatImagePaths /\ HeaderMismatch)
    => /\ upstreamCalls = 0
       /\ ~bodyRead
       /\ Done => resp.status = 401

\* C1 (amended): with a token configured, every non-OPTIONS request to a chat
\* or image route the variant serves, with a missing or mismatched
\* Authorization header, gets 401, decided before the body is parsed and before
\* any upstream call; an OPTIONS request to these paths gets the 204 preflight
\* and an image path the variant does not serve gets 404, both also without
\* parsing the body or calling upstream.
C1_UnauthorizedBeforeUpstream ==
  (TokenConfigured /\ req.path \in ChatImagePaths /\ HeaderMismatch)
    => /\ upstreamCalls = 0
       /\ ~bodyRead
       /\ ~thrown
       /\ Done => resp.status = IF req.method = "OPTIONS" THEN 204
                                ELSE IF req.path \in Routes(variant) THEN 401
                                ELSE 404

C1_Witness ==
  /\ Done
  /\ TokenConfigured
  /\ ServedChatImage
  /\ req.auth = "Bearer wrong"
  /\ authChecked
  /\ resp.status = 401

\* ---- C2 ------------------------------------------------------------------
\* C2: every OPTIONS request, whatever the path, the Authorization header and
\* the configured token, is answered 204 with the three CORS headers, before
\* any authentication check, body read or upstream call.
C2_PreflightUnconditional ==
  req.method = "OPTIONS"
    => /\ ~authChecked
       /\ ~bodyRead
       /\ upstreamCalls = 0
       /\ ~thrown
       /\ pc \in {"handler", "done"}
       /\ Done => /\ resp.status = 204
                  /\ AllowOrigin \in resp.headers
                  /\ <<"Access-Control-Allow-Methods", "GET, POST, OPTIONS">> \in resp.headers
                  /\ <<"Access-Control-Allow-Headers", "Content-Type, Authorization">> \in resp.headers

C2_Witness ==
  /\ Done
  /\ req.method = "OPTIONS"
  /\ TokenConfigured
  /\ req.auth = null
  /\ req.path = "/v1/chat/completions"
  /\ resp.status = 204

\* ---- C3 ------------------------------------------------------------------
\* C3: every error response the handler returns carries
\* Access-Control-Allow-Origin: *, in every variant.
C3_ErrorsCarryCors ==
  (Done /\ ~thrown /\ resp.status >= 400) => AllowOrigin \in resp.headers

\* ---- C4 ------------------------------------------------------------------
\* the public ids of the registry of variant v
PublicIds(v) == {ModelKeys(v)[i] : i \in DOMAIN ModelKeys(v)}

\* r is 200 {object:"list", data} listing every public id exactly once, as a model
ListsEveryModelOnce(r) ==
  /\ r.status = 200
  /\ r.body.kind = "json"
  /\ r.body.object = "list"
  /\ \A id \in PublicIds(variant) :
       /\ Cardinality({i \in DOMAIN r.body.data : r.body.data[i].id = id}) = 1
       /\ \A i \in DOMAIN r.body.data : r.body.data[i].id = id => r.body.data[i].object = "model"

\* C4 (as stated): GET /v1/models needs no authentication; it always returns
\* the 200 list with every public model id exactly once.
C4_Original ==
  (Done /\ req.method = "GET" /\ req.path = "/v1/models") => ListsEveryModelOnce(resp)

\* C4 (amended): in part_000 and part_001 GET /v1/models needs no
\* authentication and always returns the 200 list with every public id exactly
\* once; in main.ts the router authenticates before dispatch, so it returns
\* that list when no token is configured or the header matches, and 401
\* otherwise. The authentication check never runs in part_000 and part_001.
C4_ModelsList ==
  (req.method = "GET" /\ req.path = "/v1/models")
    => /\ upstreamCalls = 0
       /\ variant # "main" => ~authChecked
       /\ Done => IF variant = "main" /\ ~Authenticated
                    THEN resp.status = 401
                    ELSE ListsEveryModelOnce(resp)

C4_Witness ==
  /\ Done
  /\ req.method = "GET"
  /\ req.path = "/v1/models"
  /\ variant = "part_000"
  /\ TokenConfigured
  /\ req.auth = null
  /\ resp.status = 200
  /\ Len(resp.body.data) = 1

\* ---- C5 ------------------------------------------------------------------
\* t is s with its leading and trailing whitespace removed
IsTrimOf(t, s) ==
  \E i \in 0..Len(s) : \E j \in 0..Len(s) :
    /\ i + Len(t) + j = Len(s)
    /\ t = SubSeq(s, i + 1, i + Len(t))
    /\ \A k \in 1..i : IsSpace(s[k])
    /\ \A k \in (Len(s) - j + 1)..Len(s) : IsSpace(s[k])
    /\ t # <<>> => (~IsSpace(t[1]) /\ ~IsSpace(t[Len(t)]))

\* the upstream answered the chat call with a 2xx status and a JSON body
UpstreamChatSuccess ==
  /\ Modality = "chat"
  /\ Ok(apiResponse.status)
  /\ apiResponse.kind = "json"

\* the content the upstream sent, "" when the field is absent
UpstreamContent == IF apiResponse.hasContent THEN apiResponse.content ELSE <<>>

\* f is the content frame (a): the whole trimmed content, finish_reason null
IsContentFrame(f) ==
  /\ f.literal = ""
  /\ f.chunk.object = "chat.completion.chunk"
  /\ f.chunk.hasDelta
  /\ IsTrimOf(f.chunk.delta, UpstreamContent)
  /\ f.chunk.finish_reason = null

\* f is the terminal frame (b): empty delta, finish_reason "stop"
IsTerminalFrame(f) ==
  /\ f.literal = ""
  /\ f.chunk.object = "chat.completion.chunk"
  /\ ~f.chunk.hasDelta
  /\ f.chunk.finish_reason = "stop"

\* the frames emitted so far are the first frames of (a), (b), [DONE], in order
FramesInOrder ==
  /\ Len(frames) <= 3
  /\ Len(frames) >= 1 => IsContentFrame(frames[1])
  /\ Len(frames) >= 2 => IsTerminalFrame(frames[2]) /\ frames[2].chunk.id = frames[1].chunk.id
  /\ Len(frames) >= 3 => frames[3] = DoneFrame

ThreeFramesThenClosed ==
  /\ Len(frames) = 3
  /\ FramesInOrder
  /\ closed

EventStream == <<"Content-Type", "text/event-stream">>

\* C5 (as stated): an authenticated chat request with stream === true and a
\* successful upstream reply is answered as text/event-stream with exactly the
\* three frames (a), (b), [DONE] and a closed stream.
C5_Original ==
  (Done /\ Authenticated /\ req.body.stream = true /\ UpstreamChatSuccess
        /\ apiResponse.hasContent)
    => /\ EventStream \in resp.headers
       /\ ThreeFramesThenClosed

C5_StreamInvariant ==
  /\ variant # "part_000" => (frames = <<>> /\ ~closed /\ EventStream \notin resp.headers)
  /\ FramesInOrder
  /\ closed => Len(frames) = 3
  /\ (Done /\ variant = "part_000" /\ Authenticated /\ req.body.stream = true /\ UpstreamChatSuccess)
       => /\ resp.status = 200
          /\ EventStream \in resp.headers
          /\ ThreeFramesThenClosed

\* C5 (amended): in the streaming variant part_000, an authenticated chat
\* request with stream === true and a successful upstream reply is answered
\* 200 text/event-stream; its frames are emitted in the order (a) content chunk
\* with the whole trimmed content and finish_reason null, (b) terminal chunk
\* with empty delta, finish_reason "stop" and the id of (a), (c) data: [DONE];
\* then the stream is closed and no frame is emitted after the close. main.ts
\* and part_001 ignore stream and never emit a frame or an event-stream header.
C5_ThreeFrameStream == [](C5_StreamInvariant) /\ [][closed => (closed' /\ frames' = frames)]_vars

C5_Witness ==
  /\ Done
  /\ variant = "part_000"
  /\ TokenConfigured
  /\ req.body.stream = true
  /\ Len(frames) = 3
  /\ closed
  /\ frames[1].chunk.delta # <<>>
  /\ frames[1].chunk.delta # apiResponse.content
  /\ EventStream \in resp.headers

\* ---- C6 ------------------------------------------------------------------
\* m is the public id of a registry entry of the given modality
IsRegistered(v, modality, m) ==
  /\ m \in PublicIds(v)
  /\ IF v = "main" THEN MODEL_MAPPING(v, m).type = modality ELSE modality = "chat"

NamesModel(r, m) ==
  /\ r.body.kind = "json"
  /\ r.body.error \in {"Chat model not found: " \o Str(m),
                       "Image model not found: " \o Str(m),
                       "Model not found: " \o Str(m)}

\* C6: an authenticated chat (image) request with a parsable body whose model
\* is not a registered chat (image) model is answered 404 with a JSON error
\* naming the model, and the upstream is never called.
C6_UnknownModel404 ==
  (ServedChatImage /\ Authenticated /\ req.body.kind = "object"
     /\ ~IsRegistered(variant, Modality, req.body.model))
    => /\ upstreamCalls = 0
       /\ Done => (resp.status = 404 /\ NamesModel(resp, req.body.model))

\* ---- C7 ------------------------------------------------------------------
UpstreamFailed == apiResponse.status # 0 /\ ~Ok(apiResponse.status)

\* C7 (as stated): when the upstream answers non-2xx the handler returns a
\* response whose status is the upstream's (part_000, part_001) or 500 (main.ts),
\* never 200, does not throw, and has called the upstream exactly once.
C7_Original ==
  /\ upstreamCalls <= 1
  /\ UpstreamFailed
       => /\ upstreamCalls = 1
          /\ ~thrown
          /\ Done => /\ resp.status # 200
                     /\ resp.status = IF variant = "main" THEN 500 ELSE apiResponse.status

\* C7 (amended): when the upstream answers non-2xx the handler returns a
\* response, never throws and never answers 200, and has called the upstream
\* exactly once; the status is 500 in main.ts, and in part_000 and part_001 it
\* is the upstream's status, or 500 when building the error response fails
\* (the upstream error body cannot be read, or the upstream status is one a
\* response with a body cannot carry, such as 304).
C7_UpstreamFailure ==
  /\ upstreamCalls <= 1
  /\ UpstreamFailed
       => /\ upstreamCalls = 1
          /\ ~thrown
          /\ pc \in {"reply", "done"}
          /\ Done => /\ resp.status # 200
                     /\ variant = "main" => resp.status = 500
                     /\ variant # "main" => resp.status \in {apiResponse.status, 500}
                     /\ apiResponse.status = 304 => resp.status = 500

C7_Witness ==
  /\ Done
  /\ UpstreamFailed
  /\ variant = "part_001"
  /\ apiResponse.status = 503
  /\ resp.status = 503

\* ---- C8 ------------------------------------------------------------------
\* C8: an authenticated chat or image request whose body is not JSON is
\* answered 400 and the upstream is never called.
C8_BadBody400 ==
  (ServedChatImage /\ Authenticated /\ req.body.kind = "invalid")
    => /\ upstreamCalls = 0
       /\ Done => resp.status = 400

\* ---- C9 ------------------------------------------------------------------
\* the content the response carries: delta.content when streamed, else message.content
OutboundContent == IF frames # <<>> THEN frames[1].chunk.delta ELSE resp.body.content

\* C9: after a 2xx upstream chat reply the request succeeds with status 200 and
\* the outbound content is the upstream content trimmed, "" when absent.
C9_TrimmedContent ==
  (Done /\ UpstreamChatSuccess)
    => /\ ~thrown
       /\ resp.status = 200
       /\ IsTrimOf(OutboundContent, UpstreamContent)

\* ---- C10 -----------------------------------------------------------------
\* C10: in every emulated stream the content chunk and the terminal chunk carry
\* the same id, the same created and the same model, however the clock advances
\* between their construction.
C10_ChunksShareFields ==
  Len(frames) >= 2
    => /\ frames[1].chunk.id = frames[2].chunk.id
       /\ frames[1].chunk.created = frames[2].chunk.created
       /\ frames[1].chunk.model = frames[2].chunk.model
====
